---- MODULE Spec2Model ----
(***************************************************************************)
(* Model of the useChat conversation state manager of spoc-agent           *)
(* (hooks/useChat, src/unnamed/part_007) together with the apiFetch        *)
(* helper it calls (src/frontend/src/utils/api.js).                        *)
(*                                                                         *)
(* Every handler is split where the JavaScript awaits: the synchronous     *)
(* part of a handler is one action, the continuation that runs when the    *)
(* backend call settles (or the timer fires) is another.  React state      *)
(* updates queued inside one such part are applied in order and become     *)
(* visible together, so each part is one atomic step.                      *)
(*                                                                         *)
(* Strings whose contents the code inspects (URLs, file names, repository  *)
(* names) are sequences of one-character strings.  Message texts are       *)
(* records [kind, arg]: kind names the template literal of the source,     *)
(* arg the value interpolated into it.                                     *)
(***************************************************************************)
EXTENDS Integers, Sequences, FiniteSets, TLC

\* ------------------------------------------------------------------ bounds
\* number of user operations (handler invocations) per run
MaxReq == 2
\* number of milliseconds the clock may advance during a run
MaxClock == 1
\* number of diagram components mounted on a page
MaxDiagrams == 4
DIAGRAMS == 1..MaxDiagrams

\* number of words of a text given to the mention resolver
MaxWords == 3

\* ------------------------------------------------------- string utilities
Null == <<>>

Last(s) == s[Len(s)]

\* first position at which pat occurs in s, 0 when it does not occur
IndexOf(pat, s) ==
  LET hits == {i \in 1..(Len(s) + 1 - Len(pat)) : SubSeq(s, i, i + Len(pat) - 1) = pat}
  IN IF hits = {} THEN 0 ELSE CHOOSE i \in hits : \A j \in hits : i <= j

\* String.prototype.includes
Includes(s, pat) == IndexOf(pat, s) # 0

\* the k-th smallest element of a set of numbers
Nth(set, k) == CHOOSE p \in set : Cardinality({q \in set : q < p}) = k - 1

\* String.prototype.split(sep) for a one-character separator: the pieces
\* between consecutive occurrences of sep (and the two ends of s)
Split(s, sep) ==
  LET seps == {i \in 1..Len(s) : s[i] = sep}
  IN [k \in 1..(Cardinality(seps) + 1) |->
        SubSeq(s, Nth(seps \cup {0}, k) + 1, Nth(seps \cup {Len(s) + 1}, k) - 1)]

HTTPS_GITHUB == <<"h","t","t","p","s",":","/","/","g","i","t","h","u","b",".","c","o","m","/">>
HTTP_GITHUB == <<"h","t","t","p",":","/","/","g","i","t","h","u","b",".","c","o","m","/">>

\* repoUrl.replace(/https?:\/\/github\.com\//, ''): the first match, wherever
\* it starts, is removed
StripGithubPrefix(url) ==
  LET a == IndexOf(HTTPS_GITHUB, url)
      b == IndexOf(HTTP_GITHUB, url)
  IN IF a = 0 /\ b = 0 THEN url
     ELSE IF b = 0 \/ (a # 0 /\ a < b)
          THEN SubSeq(url, 1, a - 1) \o SubSeq(url, a + Len(HTTPS_GITHUB), Len(url))
          ELSE SubSeq(url, 1, b - 1) \o SubSeq(url, b + Len(HTTP_GITHUB), Len(url))

UNKNOWN_REPO == <<"u","n","k","n","o","w","n","-","r","e","p","o">>
UPLOADED_REPO == <<"u","p","l","o","a","d","e","d","-","r","e","p","o">>

\* the repository name analyzeRepository derives from the URL
RepoNameFromUrl(url) ==
  LET urlParts == Split(StripGithubPrefix(url), "/")
      popped == Last(Split(url, "/"))
  IN IF Len(urlParts) >= 2 THEN urlParts[1] \o <<"-">> \o urlParts[2]
     ELSE IF popped # <<>> THEN popped ELSE UNKNOWN_REPO

\* file.name.replace(/\.[^/.]+$/, "") || 'uploaded-repo': the extension is the
\* last dot followed by one or more characters other than '/' and '.'
StripExtension(name) ==
  LET dots == {i \in 1..(Len(name) - 1) :
                  /\ name[i] = "."
                  /\ \A j \in (i + 1)..Len(name) : name[j] \notin {"/", "."}}
      cut == IF dots = {} THEN name
             ELSE SubSeq(name, 1, (CHOOSE i \in dots : TRUE) - 1)
  IN IF cut # <<>> THEN cut ELSE UPLOADED_REPO

\* String.prototype.trim
WHITESPACE == {" ", "\t", "\n"}

Trim(s) ==
  LET kept == {i \in 1..Len(s) : s[i] \notin WHITESPACE}
  IN IF kept = {} THEN <<>>
     ELSE SubSeq(s, CHOOSE i \in kept : \A j \in kept : i <= j,
                    CHOOSE i \in kept : \A j \in kept : i >= j)

\* Number.prototype.toString for a non-negative integer
DIGITS == <<"0","1","2","3","4","5","6","7","8","9">>

ToDecimal(n) ==
  LET digits[m \in 0..n] ==
        IF m < 10 THEN <<DIGITS[m + 1]>>
        ELSE digits[m \div 10] \o <<DIGITS[(m % 10) + 1]>>
  IN digits[n]

\* ----------------------------------------------------------------- mentions
LOWER == <<"a","b","c","d","e","f","g","h","i","j","k","l","m",
           "n","o","p","q","r","s","t","u","v","w","x","y","z">>
UPPER == <<"A","B","C","D","E","F","G","H","I","J","K","L","M",
           "N","O","P","Q","R","S","T","U","V","W","X","Y","Z">>

\* String.prototype.toLowerCase
ToLowerCase(s) ==
  [i \in 1..Len(s) |->
     IF \E k \in 1..Len(UPPER) : UPPER[k] = s[i]
     THEN LOWER[CHOOSE k \in 1..Len(UPPER) : UPPER[k] = s[i]]
     ELSE s[i]]

\* the character classes \w and [\w.-] of the tag pattern, and [#@]
WORD_CHARS ==
  {LOWER[k] : k \in 1..Len(LOWER)} \cup {UPPER[k] : k \in 1..Len(UPPER)}
    \cup {DIGITS[k] : k \in 1..Len(DIGITS)} \cup {"_"}
TAG_CHARS == WORD_CHARS \cup {".", "-"}
SIGILS == {"#", "@"}

\* the elements of s at the positions in keep, in order
KeepAt(s, keep) ==
  LET kept[j \in 0..Len(s)] ==
        IF j = 0 THEN <<>>
        ELSE IF j \in keep THEN Append(kept[j - 1], s[j]) ELSE kept[j - 1]
  IN kept[Len(s)]

\* /(^|\s)([#@])([\w.-]{2,})\b/ matched with its sigil at position i: the
\* length of the name [\w.-]{2,} (greedy, ending at a word boundary), 0 when
\* the pattern does not match there
TagLength(s, i) ==
  IF ~(s[i] \in SIGILS /\ (i = 1 \/ s[i - 1] \in WHITESPACE)) THEN 0
  ELSE LET ends == {e \in (i + 2)..Len(s) :
                      /\ \A j \in (i + 1)..e : s[j] \in TAG_CHARS
                      /\ s[e] \in WORD_CHARS
                      /\ e = Len(s) \/ s[e + 1] \notin WORD_CHARS}
       IN IF ends = {} THEN 0 ELSE (CHOOSE e \in ends : \A f \in ends : f <= e) - i

\* the positions of the sigils of all tags of s
TagPositions(s) == {i \in 1..Len(s) : TagLength(s, i) > 0}

\* mutant: a name is collected every time a tag selects it
MentionedRepos_Repeated(content, registry) ==
  LET tags == TagPositions(content)
      candidate(k) == SubSeq(content, Nth(tags, k) + 1, Nth(tags, k) + TagLength(content, Nth(tags, k)))
      matches(k) == {i \in 1..Len(registry) :
                       Includes(ToLowerCase(registry[i].name), ToLowerCase(candidate(k)))}
      found(k) == registry[CHOOSE i \in matches(k) : \A j \in matches(k) : i <= j].name
      collected[k \in 0..Cardinality(tags)] ==
        IF k = 0 THEN <<>>
        ELSE IF matches(k) = {} THEN collected[k - 1]
             ELSE Append(collected[k - 1], found(k))
  IN collected[Cardinality(tags)]

\* the names the tags of content select: for each tag in order the first
\* registry entry whose name contains the tag text, compared in lower case,
\* each name once
MentionedRepos(content, registry) ==
  LET tags == TagPositions(content)
      candidate(k) == SubSeq(content, Nth(tags, k) + 1, Nth(tags, k) + TagLength(content, Nth(tags, k)))
      matches(k) == {i \in 1..Len(registry) :
                       Includes(ToLowerCase(registry[i].name), ToLowerCase(candidate(k)))}
      found(k) == registry[CHOOSE i \in matches(k) : \A j \in matches(k) : i <= j].name
      collected[k \in 0..Cardinality(tags)] ==
        IF k = 0 THEN <<>>
        ELSE IF matches(k) = {} \/ \E j \in 1..Len(collected[k - 1]) : collected[k - 1][j] = found(k)
             THEN collected[k - 1]
             ELSE Append(collected[k - 1], found(k))
  IN collected[Cardinality(tags)]

\* the punctuation [,.;!?] before which handleSendMessage removes spaces
PUNCTUATION == {",", ".", ";", "!", "?"}

\* replace(/(^|\s)[#@][\w.-]{2,}\b/g, '$1'): the sigil and the name of
\* every tag go, the whitespace before it stays
RemoveTags(s) ==
  LET tags == UNION {i..(i + TagLength(s, i)) : i \in TagPositions(s)}
  IN KeepAt(s, (1..Len(s)) \ tags)

\* replace(/\s+([,.;!?])/g, '$1')
TightenPunctuation(s) ==
  KeepAt(s, {j \in 1..Len(s) :
               ~(/\ s[j] \in WHITESPACE
                 /\ \E p \in (j + 1)..Len(s) :
                      /\ s[p] \in PUNCTUATION
                      /\ \A q \in j..(p - 1) : s[q] \in WHITESPACE)})

\* /,\s*,+/ matched with its first comma at position i: the position of the
\* last comma of the match, 0 when the pattern does not match there
CommasEnd(s, i) ==
  IF s[i] # "," THEN 0
  ELSE LET spaces == {w \in i..Len(s) : \A q \in (i + 1)..w : s[q] \in WHITESPACE}
           w == CHOOSE x \in spaces : \A y \in spaces : y <= x
           commas == {e \in (w + 1)..Len(s) : \A q \in (w + 1)..e : s[q] = ","}
       IN IF commas = {} THEN 0 ELSE CHOOSE e \in commas : \A f \in commas : f <= e

\* replace(/,\s*,+/g, ', ')
RECURSIVE CollapseCommas(_)
CollapseCommas(s) ==
  LET starts == {i \in 1..Len(s) : CommasEnd(s, i) > 0}
      i == CHOOSE x \in starts : \A y \in starts : x <= y
  IN IF starts = {} THEN s
     ELSE SubSeq(s, 1, i - 1) \o <<",", " ">>
            \o CollapseCommas(SubSeq(s, CommasEnd(s, i) + 1, Len(s)))

\* replace(/^[\s,]+/, '').replace(/[\s,]+$/, '')
StripEnds(s) ==
  LET junk == WHITESPACE \cup {","}
  IN KeepAt(s, {j \in 1..Len(s) :
                  /\ \E i \in 1..j : s[i] \notin junk
                  /\ \E i \in j..Len(s) : s[i] \notin junk})

\* replace(/\s{2,}/g, ' ')
CollapseSpaces(s) ==
  LET keep == {j \in 1..Len(s) : ~(s[j] \in WHITESPACE /\ j > 1 /\ s[j - 1] \in WHITESPACE)}
  IN [k \in 1..Cardinality(keep) |->
        LET j == Nth(keep, k)
        IN IF s[j] \in WHITESPACE /\ j < Len(s) /\ s[j + 1] \in WHITESPACE
           THEN " " ELSE s[j]]

\* the input with its tags removed and the punctuation around them tidied
StripTags(typed) ==
  Trim(CollapseSpaces(StripEnds(CollapseCommas(TightenPunctuation(RemoveTags(typed))))))

\* ------------------------------------------------------------------ inputs
\* two URLs the repository dialog accepts, naming the same GitHub repository
URL_HTTPS == HTTPS_GITHUB \o <<"a","/","b">>
URL_HTTP == HTTP_GITHUB \o <<"a","/","b">>
URLS == {URL_HTTPS, URL_HTTP}

\* an uploaded archive (the dropzone accepts .zip only)
FILE_ZIP == <<"p",".","z","i","p">>
FILES == {FILE_ZIP}

\* what the user types: a question, blank input, and a question that tags
\* the repository of URL_HTTPS in upper case
QUESTION == <<"q">>
BLANK == <<" ">>
TAGGED == <<"q", ",", " ", "#", "A", "-", "B", " ", ",", " ", "?">>
CONTENTS == {QUESTION, BLANK, TAGGED}

FEATURE == <<"f">>

\* texts of the input field: those above and a text that is a tag and nothing else
TAG_ONLY == <<"#", "A", "-", "B">>
INPUTS == CONTENTS \cup {TAG_ONLY}

\* contentToSend of handleSendMessage for each input: the input without its
\* tags when it has any
ContentToSend ==
  [typed \in INPUTS |-> IF TagPositions(typed) # {} THEN StripTags(typed) ELSE typed]

\* ------------------------------------------------------ backend responses
\* An HTTP response as fetch delivers it: status, content type and body.  A
\* JSON body is null or an object of which the handlers read success,
\* message, repository_info and messages; a text body is a string.  A
\* rejected fetch (network error) is the record [net |-> TRUE].
JsonNull == [t |-> "null"]
\* success is "true", "false" or "absent"; message and infoName are <<>> when
\* the key is absent; hasInfo / hasMsgs tell whether repository_info /
\* messages are present
JsonObj(success, message, hasInfo, infoName, hasMsgs, msgs) ==
  [t |-> "obj", success |-> success, message |-> message, hasInfo |-> hasInfo,
   infoName |-> infoName, hasMsgs |-> hasMsgs, msgs |-> msgs]

HttpJson(status, body) == [net |-> FALSE, status |-> status, ctype |-> "json", body |-> body]
HttpText(status, text) == [net |-> FALSE, status |-> status, ctype |-> "text", body |-> [t |-> "text", text |-> text]]
NetworkError == [net |-> TRUE]

FAILED_TO_FETCH == <<"F","a","i","l","e","d"," ","t","o"," ","f","e","t","c","h">>
HTTP_SP == <<"H","T","T","P"," ">>

\* apiFetch: returns [threw |-> FALSE, data |-> body] for a 2xx response and
\* [threw |-> TRUE, message |-> text] otherwise
ApiFetch(resp) ==
  IF resp.net THEN [threw |-> TRUE, message |-> FAILED_TO_FETCH]
  ELSE IF resp.status \in 200..299 THEN [threw |-> FALSE, data |-> resp.body]
  ELSE [threw |-> TRUE,
        message |-> IF resp.body.t = "text" THEN resp.body.text
                    ELSE IF resp.body.t = "obj" /\ resp.body.message # <<>>
                         THEN resp.body.message
                         ELSE HTTP_SP \o ToDecimal(resp.status)]

\* reading a property of data throws a TypeError exactly when data is null
ThrowsOnRead(data) == data.t = "null"

\* data.success and data.repository_info as the handlers test them
DataSuccess(data) == data.t = "obj" /\ data.success = "true"
DataHasInfo(data) == data.t = "obj" /\ data.hasInfo

\* the /analyze-repo responses of a run: the current format, the legacy format
\* (repository_info echoing the repo_name of the request), a null body, and a
\* server failure with an empty JSON body
OBJ_EMPTY == JsonObj("absent", <<>>, FALSE, <<>>, FALSE, <<>>)
OBJ_SUCCESS == JsonObj("true", <<>>, FALSE, <<>>, FALSE, <<>>)
OBJ_FAILURE == JsonObj("false", <<>>, FALSE, <<>>, FALSE, <<>>)
ObjLegacy(name) == JsonObj("absent", <<>>, TRUE, name, FALSE, <<>>)
ObjConversation(msgs) == JsonObj("true", <<>>, FALSE, <<>>, TRUE, msgs)

AnalyzeResponses(repoName) ==
  {HttpJson(200, OBJ_SUCCESS), HttpJson(200, ObjLegacy(repoName)),
   HttpJson(200, JsonNull), HttpJson(500, OBJ_EMPTY)}
\* 422 answers to analyzeRepository: an empty JSON body, and a text body that
\* does not repeat the status
UNPROCESSABLE_TEXT == <<"b","a","d"," ","u","r","l">>
UnprocessableResponses == {HttpJson(422, OBJ_EMPTY), HttpText(422, UNPROCESSABLE_TEXT)}
\* a gateway failure: status 502 with an empty JSON body
BAD_GATEWAY == HttpJson(502, OBJ_EMPTY)
AnalyzeRepositoryResponses(repoName) ==
  AnalyzeResponses(repoName) \cup UnprocessableResponses \cup {BAD_GATEWAY}

AskResponses == {HttpJson(200, OBJ_EMPTY), NetworkError}
SuggestResponses == {HttpJson(200, OBJ_EMPTY), NetworkError}
\* a stored conversation is a list of roles (the texts are not inspected)
SwitchSuccesses ==
  {HttpJson(200, ObjConversation(<<>>)), HttpJson(200, ObjConversation(<<"user">>))}
\* failures: success false, a rejected fetch, a server error, and malformed
\* bodies (null, no messages key, a null element in messages)
SwitchFailures ==
  {HttpJson(200, OBJ_FAILURE), NetworkError, HttpJson(500, OBJ_EMPTY),
   HttpJson(200, JsonNull), HttpJson(200, OBJ_SUCCESS),
   HttpJson(200, ObjConversation(<<"null">>))}
SwitchResponses == SwitchSuccesses \cup SwitchFailures

\* ------------------------------------------------------------------- state
VARIABLES
  messages,        \* the message log (useState messages)
  isLoading,       \* the busy flag
  repositories,    \* the repository registry
  activeRepoName,  \* the active-repository pointer, Null for null
  clock,           \* Date.now()
  inflight,        \* backend calls issued and not yet settled
  timers,          \* pending setTimeout callbacks of sendMessage
  nextRid,         \* number of the next user operation (bounds the run)
  sessionId,       \* the session id of the hook (useState without a setter)
  storedSessionId, \* localStorage 'current_session_id', Null when removed
  mounted,         \* registry and pointer as the first render saw them
  exported,        \* the file exportChatData downloaded last, Null for none
  importResult,    \* how the last importChatData ended, Null for none
  resolver,        \* the mention resolver applied to a text and a registry
  input,           \* the text of the input field (useState input)
  storage,         \* localStorage: the saved log, registry and pointer
  mermaidLoaded,   \* the Mermaid script has been loaded
  mermaidLoading,  \* a load of the Mermaid script is in progress
  mermaidCallbacks,\* the diagrams whose callback waits for the load
  diagrams,        \* per diagram component: how far its mount effect got
  invoked,         \* per diagram: how often its queued callback was called
  toasts,          \* the toasts shown by addToast, oldest first
  showRepoInput,   \* the repository modal is open
  showFileUpload   \* the upload modal is open

\* state that no handler assigns: sessionId has no setter, mounted is what
\* the closures created by the first render keep, and apart is the state of
\* the parts that are exercised apart from the hook's handlers
loader == <<mermaidLoaded, mermaidLoading, mermaidCallbacks, diagrams, invoked>>
modals == <<toasts, showRepoInput, showFileUpload>>
page == <<loader, modals>>
apart == <<resolver, storage, page>>
fixed == <<sessionId, mounted, apart>>

\* the backup file and the outcome of the last import
backup == <<exported, importResult>>

vars == <<messages, isLoading, repositories, activeRepoName, clock, inflight,
          timers, nextRid, storedSessionId, backup, fixed, input>>

\* a message: kind names the text template, arg the value interpolated
Msg(id, type, kind, arg, thinking, error) ==
  [id |-> id, type |-> type, kind |-> kind, arg |-> arg,
   isThinking |-> thinking, isError |-> error]

DEFAULT_WELCOME_MESSAGE == Msg(<<"1">>, "assistant", "welcome", <<>>, FALSE, FALSE)

\* Date.now().toString()
NowId == ToDecimal(clock)

\* a backend call (or timer) issued by a handler: arg is the handler's
\* argument, repoName the repository name it computed before the call
Req(rid, op, arg, repoName) ==
  [rid |-> rid, op |-> op, arg |-> arg, repoName |-> repoName,
   repoOverrides |-> <<>>, repo_contexts |-> <<>>, session_id |-> Null]

\* sendMessage's call: repoOverrides is the list it was given, repo_contexts
\* and session_id are the form fields of the /ask-question request (a single
\* repo_context is the one-element list)
Ask(rid, content, repoName, repoOverrides, repo_contexts, session_id) ==
  [Req(rid, "sendMessage", content, repoName) EXCEPT
     !.repoOverrides = repoOverrides, !.repo_contexts = repo_contexts,
     !.session_id = session_id]

\* addMessage: append with id Date.now().toString()
AddMessage(prev, type, kind, arg, thinking) ==
  Append(prev, Msg(NowId, type, kind, arg, thinking, FALSE))

\* mutant: the filter is forgotten
ReplaceThinking_KeepPlaceholder(prev, final) == Append(prev, final)

\* setMessages(prev => [...prev.filter(m => !m.isThinking), final])
ReplaceThinking(prev, final) ==
  Append(SelectSeq(prev, LAMBDA m : ~m.isThinking), final)

\* mutant: the flag is reset at the end of the try block only
FinallyLoading_OnlyOnSuccess(threw) == threw

\* the finally block of every handler: setIsLoading(false)
FinallyLoading(threw) == FALSE

\* what an earlier session may have left in localStorage: nothing, or the
\* registry and pointer written after one successful analysis of URL_HTTPS
PERSISTED_REPO == [id |-> <<"9","9","9">>, url |-> URL_HTTPS, name |-> RepoNameFromUrl(URL_HTTPS),
                   type |-> "github", src |-> URL_HTTPS]

\* `session_${Date.now()}`, and an id an earlier session left in localStorage
SESSION_PREFIX == <<"s","e","s","s","i","o","n","_">>
PERSISTED_SESSION == SESSION_PREFIX \o <<"9","9","9">>

\* localStorage as a first render finds it and before its effects have run:
\* the values under the keys of the log, the registry and the pointer (an
\* absent key reads as the empty list or null), and in saved the value of
\* each state for which its saving effect last ran (none yet)
StorageAtMount(storedMessages, storedRepositories, storedActiveRepoName) ==
  [messages |-> storedMessages,
   repositories |-> storedRepositories,
   active_repo_name |-> storedActiveRepoName,
   saved |-> [messages |-> <<>>, repositories |-> <<>>, activeRepoName |-> <<>>]]

\* the useState initialisers: the log starts with the welcome message, the
\* registry and the pointer are loaded from localStorage
\* the page as the browser loads it: the module-level flags and queue of
\* SimpleMermaidDiagram, no diagram mounted, no toast, both modals closed
PageAtLoad ==
  /\ mermaidLoaded = FALSE
  /\ mermaidLoading = FALSE
  /\ mermaidCallbacks = <<>>
  /\ diagrams = [d \in DIAGRAMS |-> "unmounted"]
  /\ invoked = [d \in DIAGRAMS |-> 0]
  /\ toasts = <<>>
  /\ showRepoInput = FALSE
  /\ showFileUpload = FALSE

Init ==
  /\ messages = <<DEFAULT_WELCOME_MESSAGE>>
  /\ isLoading = FALSE
  /\ clock = 1000
  /\ \/ /\ repositories = <<>> /\ activeRepoName = Null
        /\ sessionId = SESSION_PREFIX \o NowId
     \/ /\ repositories = <<PERSISTED_REPO>> /\ activeRepoName = PERSISTED_REPO.name
        /\ sessionId = PERSISTED_SESSION
  /\ storedSessionId = sessionId
  /\ mounted = [repositories |-> repositories, activeRepoName |-> activeRepoName]
  /\ inflight = {}
  /\ timers = {}
  /\ nextRid = 1
  /\ exported = Null
  /\ importResult = Null
  /\ resolver = Null
  /\ storage = StorageAtMount(<<>>, repositories, activeRepoName)
  /\ input = <<>>
  /\ PageAtLoad

\* the first render over the localStorage of a session that imported a backup
\* and registered nothing itself: importChatData sets the registry and leaves
\* the pointer null, and both are persisted as they are
InitRestored ==
  /\ messages = <<DEFAULT_WELCOME_MESSAGE>>
  /\ isLoading = FALSE
  /\ clock = 1000
  /\ repositories = <<PERSISTED_REPO>> /\ activeRepoName = Null
  /\ sessionId = PERSISTED_SESSION
  /\ storedSessionId = sessionId
  /\ mounted = [repositories |-> repositories, activeRepoName |-> activeRepoName]
  /\ inflight = {}
  /\ timers = {}
  /\ nextRid = 1
  /\ exported = Null
  /\ importResult = Null
  /\ resolver = Null
  /\ storage = StorageAtMount(<<>>, repositories, activeRepoName)
  /\ input = <<>>
  /\ PageAtLoad

\* time passes between two steps
Tick ==
  /\ clock < 1000 + MaxClock
  /\ clock' = clock + 1
  /\ UNCHANGED <<messages, isLoading, repositories, activeRepoName, inflight,
                 timers, nextRid>>
  /\ UNCHANGED <<storedSessionId, backup, fixed, input>>

\* the user message and the thinking placeholder a handler appends on entry
Opening(userKind, userArg) ==
  AddMessage(AddMessage(messages, "user", userKind, userArg, FALSE),
             "assistant", "thinking", <<>>, TRUE)

\* mutant: the most recent repository is preferred to the pointer
RepoNameForQuestion_RecentFirst(repoOverride) ==
  IF repoOverride # Null THEN repoOverride
  ELSE IF Len(repositories) > 0 THEN Last(repositories).name ELSE activeRepoName

\* repoOverride || activeRepoName || (most recent repository or null)
RepoNameForQuestion(repoOverride) ==
  IF repoOverride # Null THEN repoOverride
  ELSE IF activeRepoName # Null THEN activeRepoName
  ELSE IF Len(repositories) > 0 THEN Last(repositories).name ELSE Null

\* matchedRepos: the override list when it is not empty, else the
\* repositories the tags of content select
MatchedRepos(content, repoOverrides) ==
  IF Len(repoOverrides) # 0 THEN repoOverrides ELSE MentionedRepos(content, repositories)

\* the scope of the request: repo_contexts for more than one matched
\* repository, else repo_context = matchedRepos[0] || repoNameForQuestion
RepoContexts(matchedRepos, repoNameForQuestion) ==
  IF Len(matchedRepos) > 1 THEN matchedRepos
  ELSE IF Len(matchedRepos) = 1 THEN <<matchedRepos[1]>>
  ELSE <<repoNameForQuestion>>

\* sendMessage up to its await (or, without a repository, to its end)
SendMessage(content, repoOverride, repoOverrides, originalContent) ==
  IF Trim(content) = <<>> \/ isLoading
  THEN UNCHANGED vars
  ELSE /\ nextRid <= MaxReq
       /\ messages' = Opening("user", Trim(originalContent))
       /\ IF RepoNameForQuestion(repoOverride) # Null
          THEN /\ inflight' = inflight \cup
                    {Ask(nextRid, content, RepoNameForQuestion(repoOverride), repoOverrides,
                         RepoContexts(MatchedRepos(content, repoOverrides),
                                      RepoNameForQuestion(repoOverride)),
                         sessionId)}
               /\ isLoading' = TRUE
               /\ UNCHANGED timers
          ELSE /\ timers' = timers \cup {Ask(nextRid, content, Null, repoOverrides, <<>>, Null)}
               /\ isLoading' = FinallyLoading(FALSE)
               /\ UNCHANGED inflight
       /\ input' = <<>>
       /\ nextRid' = nextRid + 1
       /\ UNCHANGED <<repositories, activeRepoName, clock>>
       /\ UNCHANGED <<storedSessionId, backup, fixed>>

\* App's handleSendMessage in its tag-resolving version, run on the typed
\* text: the tags become the override list, the first of them repoOverride,
\* and the text without its tags the content.  setInput('') follows the
\* await of sendMessage: at once when sendMessage returns without a call,
\* with the continuation of sendMessage otherwise.
HandleSendMessage(typed) ==
  IF Trim(typed) = <<>> \/ isLoading
  THEN UNCHANGED vars
  ELSE LET resolvedRepos == MentionedRepos(typed, repositories)
           contentToSend == ContentToSend[typed]
           repoOverride == IF Len(resolvedRepos) > 0 THEN resolvedRepos[1] ELSE Null
       IN IF Trim(contentToSend) = <<>>
          THEN /\ input' = <<>>
               /\ UNCHANGED <<messages, isLoading, repositories, activeRepoName, clock,
                              inflight, timers, nextRid, storedSessionId, backup, fixed>>
          ELSE SendMessage(contentToSend, repoOverride, resolvedRepos, typed)

\* analyzeRepository up to its await
AnalyzeRepository(repoUrl) ==
  /\ nextRid <= MaxReq
  /\ isLoading' = TRUE
  /\ messages' = Opening("analyzeRepositoryUser", repoUrl)
  /\ inflight' = inflight \cup {Req(nextRid, "analyzeRepository", repoUrl, RepoNameFromUrl(repoUrl))}
  /\ nextRid' = nextRid + 1
  /\ UNCHANGED <<repositories, activeRepoName, clock, timers>>
  /\ UNCHANGED <<storedSessionId, backup, fixed, input>>

\* analyzeFile up to its await
AnalyzeFile(fileName) ==
  /\ nextRid <= MaxReq
  /\ isLoading' = TRUE
  /\ messages' = Opening("analyzeFileUser", fileName)
  /\ inflight' = inflight \cup {Req(nextRid, "analyzeFile", fileName, StripExtension(fileName))}
  /\ nextRid' = nextRid + 1
  /\ UNCHANGED <<repositories, activeRepoName, clock, timers>>
  /\ UNCHANGED <<storedSessionId, backup, fixed, input>>

\* repoName of suggestFeature: the callback is created by the first render
\* and never again (its dependencies are [addMessage], which never changes),
\* so activeRepoName and repositories are those of the first render
SuggestRepoName ==
  IF mounted.activeRepoName # Null THEN mounted.activeRepoName
  ELSE IF Len(mounted.repositories) > 0 THEN Last(mounted.repositories).name
  ELSE UNKNOWN_REPO

\* suggestFeature up to its await
SuggestFeature(featureDescription) ==
  /\ nextRid <= MaxReq
  /\ isLoading' = TRUE
  /\ messages' = Opening("suggestFeatureUser", featureDescription)
  /\ inflight' = inflight \cup {Req(nextRid, "suggestFeature", featureDescription, SuggestRepoName)}
  /\ nextRid' = nextRid + 1
  /\ UNCHANGED <<repositories, activeRepoName, clock, timers>>
  /\ UNCHANGED <<storedSessionId, backup, fixed, input>>

\* switchToRepository up to its await
SwitchToRepository(repoName) ==
  /\ nextRid <= MaxReq
  /\ isLoading' = TRUE
  /\ inflight' = inflight \cup {Req(nextRid, "switchToRepository", repoName, repoName)}
  /\ nextRid' = nextRid + 1
  /\ UNCHANGED <<messages, repositories, activeRepoName, clock, timers>>
  /\ UNCHANGED <<storedSessionId, backup, fixed, input>>

\* ------------------------------------------------- continuations (settle)
\* a terminal assistant message created now
Terminal(kind, arg, error) == Msg(NowId, "assistant", kind, arg, FALSE, error)

\* the message of the TypeError a property read of null raises
TYPE_ERROR == <<"n","u","l","l">>

\* the section analyzeRepository's catch block adds to its error text,
\* chosen by error.message.includes('422' / '404' / '500')
S422 == <<"4","2","2">>
S404 == <<"4","0","4">>
S500 == <<"5","0","0">>
DETAILS == <<"d","e","t","a","i","l","s">>

ErrorSection(message) ==
  IF Includes(message, S422) THEN S422
  ELSE IF Includes(message, S404) THEN S404
  ELSE IF Includes(message, S500) THEN S500
  ELSE DETAILS

\* a registry entry; src is a history field (the URL or file analysed)
Repo(id, url, name, type, src) == [id |-> id, url |-> url, name |-> name, type |-> type, src |-> src]

\* mutant: the URL is compared with the entry's name
ExistsByUrl_WrongKey(prev, repoUrl) == \E i \in 1..Len(prev) : prev[i].name = repoUrl

\* prev.find(repo => repo.url === repoUrl)
ExistsByUrl(prev, repoUrl) == \E i \in 1..Len(prev) : prev[i].url = repoUrl

\* prev.find(repo => repo.name === file.name)
ExistsByName(prev, fileName) == \E i \in 1..Len(prev) : prev[i].name = fileName

\* sendMessage after its await
SettleSendMessage(r, resp) ==
  /\ r \in inflight /\ r.op = "sendMessage"
  /\ LET res == ApiFetch(resp)
     IN /\ messages' =
             IF res.threw
             THEN ReplaceThinking(messages, Terminal("sendError", <<>>, TRUE))
             ELSE ReplaceThinking(messages, Terminal("answer", <<>>, FALSE))
        /\ isLoading' = FinallyLoading(res.threw)
  /\ inflight' = inflight \ {r}
  /\ input' = <<>>
  /\ UNCHANGED <<repositories, activeRepoName, clock, timers, nextRid>>
  /\ UNCHANGED <<storedSessionId, backup, fixed>>

\* the timer sendMessage sets when no repository is known
TimerFire(t) ==
  /\ t \in timers
  /\ messages' = ReplaceThinking(messages, Terminal("guidance", t.arg, FALSE))
  /\ isLoading' = FALSE
  /\ timers' = timers \ {t}
  /\ UNCHANGED <<repositories, activeRepoName, clock, inflight, nextRid>>
  /\ UNCHANGED <<storedSessionId, backup, fixed, input>>

\* analyzeRepository after its await: what it does to the hook's state
AnalyzeRepositoryEnds(r, resp) ==
  /\ r \in inflight /\ r.op = "analyzeRepository"
  /\ LET res == ApiFetch(resp)
         repoUrl == r.arg
         repoName == r.repoName
         popped == Last(Split(repoUrl, "/"))
         failed(prev, message) ==
           ReplaceThinking(prev, Terminal("analyzeRepositoryError", ErrorSection(message), TRUE))
         reported == ReplaceThinking(messages, Terminal("analysis", <<>>, FALSE))
         exists == ExistsByUrl(repositories, repoUrl)
         legacyName == IF res.data.infoName # <<>> THEN res.data.infoName ELSE popped
     IN IF res.threw
        THEN /\ messages' = failed(messages, res.message)
             /\ UNCHANGED <<repositories, activeRepoName>>
        ELSE IF ThrowsOnRead(res.data)
        THEN \* data.success throws after the report was queued; the catch
             \* block then adds its own message
             /\ messages' = failed(reported, TYPE_ERROR)
             /\ UNCHANGED <<repositories, activeRepoName>>
        ELSE /\ messages' = reported
             /\ IF DataSuccess(res.data) /\ ~exists
                THEN /\ repositories' = Append(repositories, Repo(NowId, repoUrl, repoName, "github", repoUrl))
                     /\ activeRepoName' = repoName
                ELSE IF ~DataSuccess(res.data) /\ DataHasInfo(res.data) /\ ~exists
                THEN /\ repositories' = Append(repositories, Repo(NowId, repoUrl, legacyName, "undefined", repoUrl))
                     /\ activeRepoName' = legacyName
                ELSE UNCHANGED <<repositories, activeRepoName>>
  /\ isLoading' = FinallyLoading(ApiFetch(resp).threw)
  /\ inflight' = inflight \ {r}
  /\ UNCHANGED <<clock, timers, nextRid>>

\* analyzeRepository after its await
SettleAnalyzeRepository(r, resp) ==
  /\ AnalyzeRepositoryEnds(r, resp)
  /\ UNCHANGED <<storedSessionId, backup, fixed, input>>

\* analyzeFile after its await: what it does to the hook's state
AnalyzeFileEnds(r, resp) ==
  /\ r \in inflight /\ r.op = "analyzeFile"
  /\ LET res == ApiFetch(resp)
         fileName == r.arg
         failed(prev, message) ==
           ReplaceThinking(prev, Terminal("analyzeFileError", message, TRUE))
         reported == ReplaceThinking(messages, Terminal("analysis", <<>>, FALSE))
         \* { name: file.name, ..., ...data.repository_info }: a name in
         \* repository_info replaces file.name
         entryName == IF res.data.infoName # <<>> THEN res.data.infoName ELSE fileName
     IN IF res.threw
        THEN /\ messages' = failed(messages, res.message)
             /\ UNCHANGED <<repositories, activeRepoName>>
        ELSE IF ThrowsOnRead(res.data)
        THEN /\ messages' = failed(reported, TYPE_ERROR)
             /\ UNCHANGED <<repositories, activeRepoName>>
        ELSE /\ messages' = reported
             /\ IF DataHasInfo(res.data) /\ ~ExistsByName(repositories, fileName)
                THEN /\ repositories' = Append(repositories, Repo(NowId, <<>>, entryName, "upload", fileName))
                     /\ activeRepoName' = fileName
                ELSE UNCHANGED <<repositories, activeRepoName>>
  /\ isLoading' = FinallyLoading(ApiFetch(resp).threw)
  /\ inflight' = inflight \ {r}
  /\ UNCHANGED <<clock, timers, nextRid>>

\* analyzeFile after its await
SettleAnalyzeFile(r, resp) ==
  /\ AnalyzeFileEnds(r, resp)
  /\ UNCHANGED <<storedSessionId, backup, fixed, input>>

\* suggestFeature after its await
SettleSuggestFeature(r, resp) ==
  /\ r \in inflight /\ r.op = "suggestFeature"
  /\ LET res == ApiFetch(resp)
     IN /\ messages' =
             IF res.threw
             THEN ReplaceThinking(messages, Terminal("suggestError", res.message, TRUE))
             ELSE ReplaceThinking(messages, Terminal("suggestions", <<>>, FALSE))
        /\ isLoading' = FinallyLoading(res.threw)
  /\ inflight' = inflight \ {r}
  /\ UNCHANGED <<repositories, activeRepoName, clock, timers, nextRid>>
  /\ UNCHANGED <<storedSessionId, backup, fixed, input>>

WELCOME_SUFFIX == <<"_","w","e","l","c","o","m","e">>
ERROR_INFIX == <<"_","e","r","r","o","r","_">>

\* mutant: the error replaces the placeholders as in the other handlers
SwitchFailureLog_Filtered(prev, failure) == ReplaceThinking(prev, failure)

\* the catch block of switchToRepository: setMessages(prev => [...prev, failure])
SwitchFailureLog(prev, failure) == Append(prev, failure)

\* switchToRepository after its await
SettleSwitchToRepository(r, resp) ==
  /\ r \in inflight /\ r.op = "switchToRepository"
  /\ LET res == ApiFetch(resp)
         repoName == r.arg
         \* data.success (throws on null), then data.messages.map (throws
         \* when messages is missing)
         switched == /\ ~res.threw
                     /\ ~ThrowsOnRead(res.data)
                     /\ DataSuccess(res.data)
                     /\ res.data.hasMsgs
                     \* msg.role throws when an element of messages is null
                     /\ \A i \in 1..Len(res.data.msgs) : res.data.msgs[i] # "null"
         roles == res.data.msgs
         transformed ==
           [i \in 1..Len(roles) |->
              Msg(repoName \o <<"_">> \o ToDecimal(i - 1), roles[i], "history", <<>>, FALSE, FALSE)]
         conversation ==
           IF Len(transformed) = 0
           THEN <<Msg(repoName \o WELCOME_SUFFIX, "assistant", "repoWelcome", repoName, FALSE, FALSE)>>
           ELSE transformed
         notice == Msg(repoName \o <<"_">> \o NowId, "assistant", "switched", repoName, FALSE, FALSE)
         failure == Msg(repoName \o ERROR_INFIX \o NowId, "assistant", "switchError", repoName, FALSE, TRUE)
     IN IF switched
        THEN /\ messages' = Append(conversation, notice)
             /\ input' = <<>>
             /\ activeRepoName' = repoName
        ELSE /\ messages' = SwitchFailureLog(messages, failure)
             /\ UNCHANGED <<activeRepoName, input>>
  /\ isLoading' = FinallyLoading(ApiFetch(resp).threw)
  /\ inflight' = inflight \ {r}
  /\ UNCHANGED <<repositories, clock, timers, nextRid>>
  /\ UNCHANGED <<storedSessionId, backup, fixed>>

\* ------------------------------------------------------------ local resets
\* newChat: the log is reset, the registry is kept
NewChat ==
  /\ nextRid <= MaxReq
  /\ messages' = <<DEFAULT_WELCOME_MESSAGE>>
  /\ nextRid' = nextRid + 1
  /\ UNCHANGED <<isLoading, repositories, activeRepoName, clock, inflight, timers>>
  /\ storedSessionId' = SESSION_PREFIX \o NowId
  /\ input' = <<>>
  /\ UNCHANGED <<backup, fixed>>

\* clearChatHistory: the log and the registry are reset
ClearChatHistory ==
  /\ nextRid <= MaxReq
  /\ messages' = <<DEFAULT_WELCOME_MESSAGE>>
  /\ repositories' = <<>>
  /\ nextRid' = nextRid + 1
  /\ UNCHANGED <<isLoading, activeRepoName, clock, inflight, timers>>
  /\ storedSessionId' = Null
  /\ storage' = [storage EXCEPT !.messages = <<>>, !.repositories = <<>>,
                                !.active_repo_name = Null,
                                !.saved.messages = <<>>, !.saved.repositories = <<>>]
  /\ UNCHANGED <<backup, sessionId, mounted, resolver, page, input>>

\* ------------------------------------------------------------------ backup
\* JSON.stringify of an object keeps the keys that have a value: a key that is
\* absent (or undefined) is not written.  A JSON object is a function from
\* the keys written to their values.
MESSAGE_KEYS == {"id", "type", "kind", "arg"}
MESSAGE_FLAGS == {"isThinking", "isError"}

\* mutant: the flags of a message are not written
JsonOfMessage_NoFlags(m) == [k \in MESSAGE_KEYS |-> m[k]]

\* a message as JSON.stringify writes it: isThinking and isError are keys of
\* the messages that carry them only
JsonOfMessage(m) ==
  [k \in MESSAGE_KEYS \cup {f \in MESSAGE_FLAGS : m[f]} |-> m[k]]

\* a registry entry as JSON.stringify writes it: uploads have no url key,
\* entries of the legacy format no type key
JsonOfRepo(repo) ==
  [k \in {"id", "name"} \cup (IF repo.url # <<>> THEN {"url"} ELSE {})
                        \cup (IF repo.type # "undefined" THEN {"type"} ELSE {}) |-> repo[k]]

\* the text of the file: JSON.stringify(exportData, null, 2)
JsonStringify(value) == [text |-> "json", value |-> value]

\* mutant: a text that is not JSON is read as an empty backup
JsonParse_Lenient(file) ==
  [threw |-> FALSE,
   value |-> IF file.text = "json" THEN file.value ELSE [messages |-> <<>>, repositories |-> <<>>]]

\* JSON.parse: the value of a JSON text, an exception for any other text
JsonParse(file) ==
  IF file.text = "json" THEN [threw |-> FALSE, value |-> file.value] ELSE [threw |-> TRUE]

\* a property read: undefined (here the given default) when the key is absent
Read(object, key, undefined) == IF key \in DOMAIN object THEN object[key] ELSE undefined

\* the objects importChatData puts into the state, as the hook reads them
MessageOfJson(o) ==
  Msg(o.id, o.type, o.kind, o.arg, Read(o, "isThinking", FALSE), Read(o, "isError", FALSE))

\* the history field src is not part of the entry and is unknown after import
RepoOfJson(o) ==
  Repo(o.id, Read(o, "url", <<>>), o.name, Read(o, "type", "undefined"), Null)

\* exportChatData: the file downloaded (with the log and registry it was made
\* from, kept as history)
ExportChatData ==
  /\ nextRid <= MaxReq
  /\ exported' =
       [file |-> JsonStringify(
                   [messages |-> [i \in 1..Len(messages) |-> JsonOfMessage(messages[i])],
                    repositories |-> [i \in 1..Len(repositories) |-> JsonOfRepo(repositories[i])],
                    sessionId |-> sessionId,
                    version |-> <<"1", ".", "0">>]),
        messages |-> messages,
        repositories |-> repositories]
  /\ nextRid' = nextRid + 1
  /\ UNCHANGED <<messages, isLoading, repositories, activeRepoName, clock, inflight,
                 timers, storedSessionId, importResult, fixed, input>>

\* files a user may pick that are no backup: not JSON, the JSON text null, and
\* JSON objects without the messages key or without the repositories key
NOT_JSON == [text |-> "other"]
JSON_NULL == JsonStringify(JsonNull)
NO_MESSAGES == JsonStringify([repositories |-> <<>>])
NO_REPOSITORIES == JsonStringify([messages |-> <<JsonOfMessage(DEFAULT_WELCOME_MESSAGE)>>])
BAD_FILES == {NOT_JSON, JSON_NULL, NO_MESSAGES, NO_REPOSITORIES}

\* whether importChatData resolves: JSON.parse must succeed, importData must
\* not be null, and importData.messages && importData.repositories be truthy
\* (an array, empty or not, is truthy)
ImportResolves(file) ==
  /\ ~JsonParse(file).threw
  /\ JsonParse(file).value # JsonNull
  /\ "messages" \in DOMAIN JsonParse(file).value
  /\ "repositories" \in DOMAIN JsonParse(file).value

\* importChatData (the onload callback of its FileReader)
ImportChatData(file) ==
  IF ImportResolves(file)
  THEN LET importData == JsonParse(file).value
       IN /\ messages' = [i \in 1..Len(importData.messages) |-> MessageOfJson(importData.messages[i])]
          /\ repositories' = [i \in 1..Len(importData.repositories) |-> RepoOfJson(importData.repositories[i])]
          /\ importResult' = "resolved"
          /\ UNCHANGED <<isLoading, activeRepoName, clock, inflight, timers, nextRid,
                         storedSessionId, exported, fixed, input>>
  ELSE /\ importResult' = "rejected"
       /\ UNCHANGED <<messages, isLoading, repositories, activeRepoName, clock, inflight,
                      timers, nextRid, storedSessionId, exported, fixed, input>>

ImportFiles == BAD_FILES \cup (IF exported = Null THEN {} ELSE {exported.file})

\* ------------------------------------------------------------ specification
RegistryNames == {repositories[i].name : i \in 1..Len(repositories)}

Settle ==
  \E r \in inflight :
    \/ \E resp \in AskResponses : SettleSendMessage(r, resp)
    \/ \E resp \in AnalyzeRepositoryResponses(r.repoName) : SettleAnalyzeRepository(r, resp)
    \/ \E resp \in AnalyzeResponses(r.repoName) : SettleAnalyzeFile(r, resp)
    \/ \E resp \in SuggestResponses : SettleSuggestFeature(r, resp)
    \/ \E resp \in SwitchResponses : SettleSwitchToRepository(r, resp)

Fire == \E t \in timers : TimerFire(t)

\* No handler reads the clock except to stamp ids and timestamps, so Next
\* leaves time standing; NextClock lets it pass between any two steps.
Next ==
  \/ \E content \in CONTENTS : SendMessage(content, Null, <<>>, content)
  \/ \E typed \in CONTENTS : HandleSendMessage(typed)
  \/ \E repoUrl \in URLS : AnalyzeRepository(repoUrl)
  \/ \E fileName \in FILES : AnalyzeFile(fileName)
  \/ SuggestFeature(FEATURE)
  \/ \E repoName \in RegistryNames : SwitchToRepository(repoName)
  \/ Settle
  \/ Fire
  \/ NewChat
  \/ ClearChatHistory

NextClock == Next \/ Tick

Spec == Init /\ [][Next]_vars

SpecClock == Init /\ [][NextClock]_vars

\* the hook with its backup operations
NextBackup ==
  \/ Next
  \/ ExportChatData
  \/ \E file \in ImportFiles : ImportChatData(file)

SpecBackup == Init /\ [][NextBackup]_vars

\* the hook mounted over any of the stored states, that of a restored
\* backup included
SpecRestored == (Init \/ InitRestored) /\ [][Next]_vars

\* ----------------------------------------------------------- persistence
\* An effect runs after a render in which one of its dependencies changed.
\* storage.saved holds, wrapped in a one-element list, the value each effect
\* last ran for; the effects of the log and of the registry write after a
\* delay, and effect and delayed write are one step here.

\* useEffect(() => storage.save('active_repo_name', activeRepoName), [activeRepoName])
PersistActiveRepo ==
  /\ storage.saved.activeRepoName # <<activeRepoName>>
  /\ storage' = [storage EXCEPT !.active_repo_name = activeRepoName,
                                !.saved.activeRepoName = <<activeRepoName>>]
  /\ UNCHANGED <<messages, isLoading, repositories, activeRepoName, clock, inflight,
                 timers, nextRid, storedSessionId, backup, sessionId, mounted, resolver, page, input>>

\* the effect on [messages, sessionId]: storage.save(STORAGE_KEYS.MESSAGES, messages)
SaveMessages ==
  /\ storage.saved.messages # <<messages>>
  /\ storage' = [storage EXCEPT !.messages = messages, !.saved.messages = <<messages>>]
  /\ UNCHANGED <<messages, isLoading, repositories, activeRepoName, clock, inflight,
                 timers, nextRid, storedSessionId, backup, sessionId, mounted, resolver, page, input>>

\* the effect on [repositories]: storage.save(STORAGE_KEYS.REPOSITORIES, repositories)
SaveRepositories ==
  /\ storage.saved.repositories # <<repositories>>
  /\ storage' = [storage EXCEPT !.repositories = repositories,
                                !.saved.repositories = <<repositories>>]
  /\ UNCHANGED <<messages, isLoading, repositories, activeRepoName, clock, inflight,
                 timers, nextRid, storedSessionId, backup, sessionId, mounted, resolver, page, input>>

\* storage.load of the log and of the registry: what JSON.parse gives back
\* for what JSON.stringify wrote
LoadMessages ==
  [i \in 1..Len(storage.messages) |-> MessageOfJson(JsonOfMessage(storage.messages[i]))]
LoadRepositories ==
  [i \in 1..Len(storage.repositories) |-> RepoOfJson(JsonOfRepo(storage.repositories[i]))]

\* the page is loaded again: the hook is initialised from localStorage, and
\* the requests and timers of the page that is gone have no effect on it
Reload ==
  /\ nextRid <= MaxReq
  /\ nextRid' = nextRid + 1
  /\ messages' = IF Len(LoadMessages) > 0 THEN LoadMessages ELSE <<DEFAULT_WELCOME_MESSAGE>>
  /\ repositories' = LoadRepositories
  /\ activeRepoName' = storage.active_repo_name
  /\ sessionId' = IF storedSessionId # Null THEN storedSessionId ELSE SESSION_PREFIX \o NowId
  /\ storedSessionId' = sessionId'
  /\ mounted' = [repositories |-> repositories', activeRepoName |-> activeRepoName']
  /\ isLoading' = FALSE
  /\ input' = <<>>
  /\ inflight' = {}
  /\ timers' = {}
  /\ storage' = StorageAtMount(storage.messages, storage.repositories, storage.active_repo_name)
  /\ mermaidLoaded' = FALSE /\ mermaidLoading' = FALSE /\ mermaidCallbacks' = <<>>
  /\ diagrams' = [d \in DIAGRAMS |-> "unmounted"]
  /\ invoked' = [d \in DIAGRAMS |-> 0]
  /\ toasts' = <<>> /\ showRepoInput' = FALSE /\ showFileUpload' = FALSE
  /\ UNCHANGED <<clock, backup, resolver>>

NextStorage ==
  \/ Next
  \/ PersistActiveRepo
  \/ SaveMessages
  \/ SaveRepositories
  \/ Reload

\* the hook with its saving effects and reloads of the page
SpecStorage == Init /\ [][NextStorage]_vars

\* ---------------------------------------------------------- input field
\* onChange of the textarea: setInput(val)
TypeInput(val) ==
  /\ input' = val
  /\ UNCHANGED <<messages, isLoading, repositories, activeRepoName, clock, inflight,
                 timers, nextRid, storedSessionId, backup, fixed>>

\* the send button and the Enter key: handleSendMessage on the text of the
\* field, in the version that resolves tags
SubmitInput == HandleSendMessage(input)

\* handleSendMessage in the version that passes the text on as it is
SubmitInputPlain == SendMessage(input, Null, <<>>, input)

NextInput ==
  \/ \E val \in INPUTS : TypeInput(val)
  \/ SubmitInput
  \/ SubmitInputPlain
  \/ Settle
  \/ Fire

\* the hook with the input field the user types into
SpecInput == Init /\ [][NextInput]_vars

\* ------------------------------------------------------ mention resolver
\* words a text is made of: tags in both sigils and cases, a tag no entry
\* matches, a tag of one character, a sigil inside a word, a plain word
WORDS ==
  {<<"#","a","b">>, <<"@","A","B">>, <<"#","b","-","c">>, <<"#","z","z">>,
   <<"#","a">>, <<"x","#","a","b">>, <<"q">>}

\* the words joined by single spaces
JoinWords(words) ==
  LET joined[k \in 0..Len(words)] ==
        IF k = 0 THEN <<>>
        ELSE IF k = 1 THEN words[1]
        ELSE joined[k - 1] \o <<" ">> \o words[k]
  IN joined[Len(words)]

RECURSIVE WordLists(_)
WordLists(n) ==
  IF n = 0 THEN {<<>>}
  ELSE WordLists(n - 1) \cup {Append(l, w) : l \in {x \in WordLists(n - 1) : Len(x) = n - 1}, w \in WORDS}

TEXTS == {JoinWords(l) : l \in WordLists(MaxWords)}

\* registries: entries whose names contain one another's parts, in several orders
NamedRepo(name) == Repo(name, <<>>, name, "github", Null)
NAME_ABC == <<"a","b","-","c">>
NAME_XAB == <<"x","A","b">>
NAME_BC == <<"B","-","c">>
REGISTRIES ==
  {<<>>, <<NamedRepo(NAME_ABC)>>, <<NamedRepo(NAME_XAB), NamedRepo(NAME_ABC)>>,
   <<NamedRepo(NAME_ABC), NamedRepo(NAME_XAB), NamedRepo(NAME_BC)>>,
   <<NamedRepo(NAME_BC), NamedRepo(NAME_XAB), NamedRepo(NAME_BC)>>}

\* the resolver is given a text and a registry
InitMentions ==
  /\ messages = <<DEFAULT_WELCOME_MESSAGE>>
  /\ isLoading = FALSE
  /\ clock = 1000
  /\ repositories = <<>> /\ activeRepoName = Null
  /\ sessionId = SESSION_PREFIX \o NowId
  /\ storedSessionId = sessionId
  /\ mounted = [repositories |-> repositories, activeRepoName |-> activeRepoName]
  /\ inflight = {}
  /\ timers = {}
  /\ nextRid = 1
  /\ exported = Null
  /\ importResult = Null
  /\ input = <<>>
  /\ storage = StorageAtMount(<<>>, repositories, activeRepoName)
  /\ resolver \in [input : TEXTS, registry : REGISTRIES, matched : {Null}, done : {FALSE}]
  /\ PageAtLoad

\* the loop of handleSendMessage and of sendMessage over the tags of the text
ResolveMentions ==
  /\ ~resolver.done
  /\ resolver' = [resolver EXCEPT !.matched = MentionedRepos(resolver.input, resolver.registry),
                                   !.done = TRUE]
  /\ UNCHANGED <<messages, isLoading, repositories, activeRepoName, clock, inflight,
                 timers, nextRid, storedSessionId, backup, sessionId, mounted, input,
                 storage, page>>

SpecMentions == InitMentions /\ [][ResolveMentions]_vars

\* ------------------------------------------------------- Mermaid loader
\* the number of callbacks of diagram d in the queue
Queued(d) == Cardinality({i \in 1..Len(mermaidCallbacks) : mermaidCallbacks[i] = d})

\* the mount effect of a diagram component: initMermaid()
InitMermaid(d) ==
  /\ diagrams[d] = "unmounted"
  /\ IF mermaidLoaded
     THEN \* setIsReady(true); renderDiagram()
          /\ diagrams' = [diagrams EXCEPT ![d] = "ready"]
          /\ UNCHANGED <<mermaidLoading, mermaidCallbacks>>
     ELSE IF mermaidLoading
     THEN \* mermaidCallbacks.push(() => { setIsReady(true); renderDiagram() })
          /\ mermaidCallbacks' = Append(mermaidCallbacks, d)
          /\ diagrams' = [diagrams EXCEPT ![d] = "queued"]
          /\ UNCHANGED mermaidLoading
     ELSE \* mermaidLoading = true; document.head.appendChild(script)
          /\ mermaidLoading' = TRUE
          /\ diagrams' = [diagrams EXCEPT ![d] = "loading"]
          /\ UNCHANGED mermaidCallbacks
  /\ UNCHANGED <<mermaidLoaded, invoked, modals, resolver, storage>>
  /\ UNCHANGED <<messages, isLoading, repositories, activeRepoName, clock, inflight,
                 timers, nextRid, storedSessionId, backup, sessionId, mounted, input>>

\* script.onload of the script that diagram d appended
ScriptOnLoad(d) ==
  /\ diagrams[d] = "loading"
  /\ mermaidLoaded' = TRUE
  /\ mermaidLoading' = FALSE
  \* mermaidCallbacks.forEach(callback => callback()); mermaidCallbacks.length = 0
  /\ invoked' = [e \in DIAGRAMS |-> invoked[e] + Queued(e)]
  /\ mermaidCallbacks' = <<>>
  /\ diagrams' = [e \in DIAGRAMS |-> IF e = d \/ Queued(e) > 0 THEN "ready" ELSE diagrams[e]]
  /\ UNCHANGED <<modals, resolver, storage>>
  /\ UNCHANGED <<messages, isLoading, repositories, activeRepoName, clock, inflight,
                 timers, nextRid, storedSessionId, backup, sessionId, mounted, input>>

\* script.onerror of the script that diagram d appended
ScriptOnError(d) ==
  /\ diagrams[d] = "loading"
  /\ mermaidLoading' = FALSE
  /\ diagrams' = [diagrams EXCEPT ![d] = "failed"]
  /\ UNCHANGED <<mermaidLoaded, mermaidCallbacks, invoked, modals, resolver, storage>>
  /\ UNCHANGED <<messages, isLoading, repositories, activeRepoName, clock, inflight,
                 timers, nextRid, storedSessionId, backup, sessionId, mounted, input>>

NextMermaid ==
  \/ \E d \in DIAGRAMS : InitMermaid(d)
  \/ \E d \in DIAGRAMS : ScriptOnLoad(d)
  \/ \E d \in DIAGRAMS : ScriptOnError(d)

\* diagram components mounting while the script loads, succeeds or fails
SpecMermaid == Init /\ [][NextMermaid]_vars

\* ---------------------------------------------------------- App handlers
\* addToast(message, type): the toast of an analysis of the given kind
Toast(kind, type) == [kind |-> kind, type |-> type]

\* the promise analyzeRepository and analyzeFile return: their catch blocks
\* handle every exception of the body and throw nothing, so it is fulfilled
\* however the analysis ended
AnalysisRejects(res) == FALSE

\* what handleRepoSubmit and handleFileUpload do after their await
ToastOf(kind, res) ==
  IF AnalysisRejects(res) THEN Toast(kind, "error") ELSE Toast(kind, "success")

\* the buttons that open the modals
OpenRepoInput ==
  /\ ~showRepoInput
  /\ showRepoInput' = TRUE
  /\ UNCHANGED <<toasts, showFileUpload, loader, resolver, storage>>
  /\ UNCHANGED <<messages, isLoading, repositories, activeRepoName, clock, inflight,
                 timers, nextRid, storedSessionId, backup, sessionId, mounted, input>>

OpenFileUpload ==
  /\ ~showFileUpload
  /\ showFileUpload' = TRUE
  /\ UNCHANGED <<toasts, showRepoInput, loader, resolver, storage>>
  /\ UNCHANGED <<messages, isLoading, repositories, activeRepoName, clock, inflight,
                 timers, nextRid, storedSessionId, backup, sessionId, mounted, input>>

\* handleRepoSubmit up to its await: onSubmit of the repository modal
HandleRepoSubmit(repoUrl) == showRepoInput /\ AnalyzeRepository(repoUrl)

\* handleFileUpload up to its await: onFileSelect of the upload modal
HandleFileUpload(fileName) == showFileUpload /\ AnalyzeFile(fileName)

\* handleRepoSubmit after its await
RepoSubmitResumes(r, resp) ==
  /\ AnalyzeRepositoryEnds(r, resp)
  /\ toasts' = Append(toasts, ToastOf("repository", ApiFetch(resp)))
  /\ showRepoInput' = (showRepoInput /\ AnalysisRejects(ApiFetch(resp)))
  /\ UNCHANGED <<showFileUpload, loader, resolver, storage>>
  /\ UNCHANGED <<storedSessionId, backup, sessionId, mounted, input>>

\* handleFileUpload after its await
FileUploadResumes(r, resp) ==
  /\ AnalyzeFileEnds(r, resp)
  /\ toasts' = Append(toasts, ToastOf("file", ApiFetch(resp)))
  /\ showFileUpload' = (showFileUpload /\ AnalysisRejects(ApiFetch(resp)))
  /\ UNCHANGED <<showRepoInput, loader, resolver, storage>>
  /\ UNCHANGED <<storedSessionId, backup, sessionId, mounted, input>>

NextApp ==
  \/ OpenRepoInput
  \/ OpenFileUpload
  \/ \E repoUrl \in URLS : HandleRepoSubmit(repoUrl)
  \/ \E fileName \in FILES : HandleFileUpload(fileName)
  \/ \E r \in inflight : \E resp \in AnalyzeRepositoryResponses(r.repoName) :
       RepoSubmitResumes(r, resp)
  \/ \E r \in inflight : \E resp \in AnalyzeResponses(r.repoName) :
       FileUploadResumes(r, resp)

\* the hook driven through the two modals of the App
SpecApp == Init /\ [][NextApp]_vars

\* every issued backend call settles and every timer fires
FairSpec == Spec /\ WF_vars(Settle) /\ WF_vars(Fire)

\* ------------------------------------------------------------ vocabulary
NonThinking(log) == SelectSeq(log, LAMBDA m : ~m.isThinking)
Thinking(log) == SelectSeq(log, LAMBDA m : m.isThinking)
Errors(log) == SelectSeq(log, LAMBDA m : m.isError)
HasThinking == Len(Thinking(messages)) > 0
IsPrefix(s, t) == Len(s) <= Len(t) /\ SubSeq(t, 1, Len(s)) = s

\* this step is the continuation of request r (its backend call settled)
Settles(r) == r \in inflight /\ inflight' = inflight \ {r}
\* this step is the guidance timer t firing
Fires(t) == t \in timers /\ timers' = timers \ {t}
\* this step is a handler invocation that was accepted
Begins == (inflight' \cup timers') \ (inflight \cup timers) # {}

PLACEHOLDER_OPS == {"sendMessage", "analyzeRepository", "analyzeFile", "suggestFeature"}

\* this step ends a request that appended a placeholder
PlaceholderRequestEnds ==
  \/ \E r \in inflight : r.op \in PLACEHOLDER_OPS /\ Settles(r)
  \/ \E t \in timers : Fires(t)

\* the responses request r may receive, and its continuation on one of them
ResponsesFor(r) ==
  CASE r.op = "sendMessage" -> AskResponses
    [] r.op = "analyzeRepository" -> AnalyzeRepositoryResponses(r.repoName)
    [] r.op = "analyzeFile" -> AnalyzeResponses(r.repoName)
    [] r.op = "suggestFeature" -> SuggestResponses
    [] r.op = "switchToRepository" -> SwitchResponses

SettleOn(r, resp) ==
  CASE r.op = "sendMessage" -> SettleSendMessage(r, resp)
    [] r.op = "analyzeRepository" -> SettleAnalyzeRepository(r, resp)
    [] r.op = "analyzeFile" -> SettleAnalyzeFile(r, resp)
    [] r.op = "suggestFeature" -> SettleSuggestFeature(r, resp)
    [] r.op = "switchToRepository" -> SettleSwitchToRepository(r, resp)


\* ------------------------------------------------------------------ claims

\* C1: in every reachable state the log holds at most one message with
\* isThinking = true.
C1_AtMostOneThinking == Len(Thinking(messages)) <= 1

\* C2: while isLoading is true an invocation of sendMessage, analyzeRepository,
\* analyzeFile, suggestFeature or switchToRepository is a no-op (no message,
\* no backend call, no state change), so at most one request is in flight.
C2_BusyInvocationIsNoOp ==
  /\ [][(isLoading /\ Begins) => UNCHANGED <<messages, isLoading, inflight, timers>>]_vars
  /\ [](Cardinality(inflight) <= 1)

\* C3: if every backend call settles and every timer fires, every thinking
\* placeholder is eventually removed, and each request that appended one adds
\* exactly one terminal message to the log.
C3_OneTerminalPerRequest ==
  /\ HasThinking ~> ~HasThinking
  /\ [][PlaceholderRequestEnds =>
          Len(NonThinking(messages')) = Len(NonThinking(messages)) + 1]_vars

\* C4: when the backend call of any of the five handlers fails, exactly one
\* isError message is appended and no thinking placeholder remains.
C4_FailureBecomesOneError ==
  [][\A r \in inflight : \A resp \in ResponsesFor(r) :
        (ApiFetch(resp).threw /\ SettleOn(r, resp)) =>
           /\ Len(Errors(messages')) = Len(Errors(messages)) + 1
           /\ Len(Thinking(messages')) = 0]_vars

\* C5: whenever isLoading is true it eventually becomes false, after success
\* and after failure alike, provided every backend call settles.
C5_BusyFlagReleased == isLoading ~> ~isLoading

\* C5 witness: a failed request has been reconciled and the flag is released.
C5_Witness == ~isLoading /\ inflight = {} /\ Len(Errors(messages)) > 0

C7_UniqueIdsInOrder ==
  /\ [](\A i, j \in 1..Len(messages) : i # j => messages[i].id # messages[j].id)
  /\ [][\/ IsPrefix(messages, messages')
        \/ IsPrefix(NonThinking(messages), messages')
        \/ messages' = <<DEFAULT_WELCOME_MESSAGE>>
        \/ \A i \in 1..Len(messages') :
             messages'[i].kind \in {"history", "repoWelcome", "switched"}]_vars

\* C8: analysing the same uploaded file twice leaves one registry entry for
\* it: the second analysis adds nothing to the registry.
C8_OneEntryPerFile ==
  \A f \in FILES :
    Cardinality({i \in 1..Len(repositories) :
                   repositories[i].type = "upload" /\ repositories[i].src = f}) <= 1

C10_UniqueNames ==
  \A i, j \in 1..Len(repositories) : i # j => repositories[i].name # repositories[j].name

\* C11: after every successful analyzeRepository or analyzeFile, a re-analysis
\* of a registered source included, the active-repository pointer equals the
\* name of the registry entry of the analysed source.
C11_PointerFollowsAnalysis ==
  [][\A r \in inflight : \A resp \in ResponsesFor(r) :
        (/\ r.op \in {"analyzeRepository", "analyzeFile"}
         /\ ~ApiFetch(resp).threw
         /\ DataSuccess(resp.body) \/ DataHasInfo(resp.body)
         /\ SettleOn(r, resp)) =>
           \E i \in 1..Len(repositories') :
             /\ repositories'[i].src = r.arg
             /\ activeRepoName' = repositories'[i].name]_vars

\* C12: each newChat replaces the session id of the hook (the one sent as
\* session_id with the next question) by a fresh one, so the id after the
\* call differs from the id before it.
C12_NewChatFreshSession == [][NewChat => sessionId' # sessionId]_vars

\* the registry without its history field
Entries(registry) ==
  [i \in 1..Len(registry) |->
     [k \in {"id", "url", "name", "type"} |-> registry[i][k]]]

C14_BadImportRejected ==
  [][\A file \in BAD_FILES : ImportChatData(file) =>
       /\ importResult' = "rejected"
       /\ UNCHANGED <<messages, repositories, sessionId, storedSessionId, activeRepoName>>]_vars

\* C14 witness: an import has been rejected in a state with a log and a
\* registry of its own, which an accepted import would have replaced.
C14_Witness ==
  /\ importResult = "rejected"
  /\ Len(messages) > 1
  /\ Len(repositories) > 0

\* C15: a non-blank question asked while idle, with an empty registry and no
\* mention or override, issues no backend call: the log gains the user
\* message, a timer is set, and when it fires one non-error guidance message
\* replaces the placeholder and the busy flag is false.
C15_NoRepositoryGuidance ==
  /\ [][(/\ ~isLoading
          /\ Len(repositories) = 0
          /\ SendMessage(QUESTION, Null, <<>>, QUESTION)) =>
            /\ inflight' = inflight
            /\ Cardinality(timers') = Cardinality(timers) + 1
            /\ \E i \in 1..Len(messages') :
                 messages'[i].type = "user" /\ messages'[i].arg = QUESTION]_vars
  /\ [][\A t \in timers : Fires(t) =>
          /\ Last(messages').kind = "guidance" /\ ~Last(messages').isError
          /\ Len(NonThinking(messages')) = Len(NonThinking(messages)) + 1
          /\ Len(Thinking(messages')) = 0
          /\ ~isLoading']_vars

\* C16: when the backend call of analyzeRepository fails with HTTP 422,
\* whatever the content type and body of the response, the placeholder is
\* replaced by an error message carrying the invalid-URL explanation and the
\* example URL (the HTTP 422 section).
C16_UnprocessableExplained ==
  [][\A r \in inflight : \A resp \in ResponsesFor(r) :
        (/\ r.op = "analyzeRepository"
         /\ ~resp.net /\ resp.status = 422
         /\ SettleOn(r, resp)) =>
           /\ Last(messages').isError
           /\ Last(messages').kind = "analyzeRepositoryError"
           /\ Last(messages').arg = S422
           /\ Len(Thinking(messages')) = 0]_vars

\* C17: when switchToRepository fails (backend error, success = false or a
\* malformed response) the log is the previous log with exactly one error
\* message appended, and the registry, the active-repository pointer and the
\* session id are unchanged.
C17_FailedSwitchFrame ==
  [][\A r \in inflight : \A resp \in SwitchFailures :
        (r.op = "switchToRepository" /\ SettleOn(r, resp)) =>
           /\ IsPrefix(messages, messages')
           /\ Len(messages') = Len(messages) + 1
           /\ Last(messages').isError
           /\ UNCHANGED <<repositories, activeRepoName, sessionId>>]_vars

\* C17 witness: a switch failed while a question was pending: its error is
\* the last message and the placeholder of the question is still in the log.
C17_Witness ==
  /\ Last(messages).kind = "switchError"
  /\ HasThinking
  /\ Cardinality(inflight) = 1

\* C18: sendMessage resolves the scope of a question by strict priority: the
\* override list when it is not empty, else the repositories its tags select,
\* else the active pointer, else the most recently registered repository; the
\* question is answered without a backend call only when all four are absent.
ScopeByPriority(r) ==
  IF r.repoOverrides # <<>> THEN r.repoOverrides
  ELSE IF MentionedRepos(r.arg, repositories) # <<>> THEN MentionedRepos(r.arg, repositories)
  ELSE IF activeRepoName # Null THEN <<activeRepoName>>
  ELSE IF repositories # <<>> THEN <<Last(repositories).name>>
  ELSE <<>>

C19_SuggestScopeCurrent ==
  [][\A r \in inflight' \ inflight :
       r.op = "suggestFeature" =>
         /\ activeRepoName # Null => r.repoName = activeRepoName
         /\ activeRepoName = Null /\ repositories # <<>> => r.repoName = Last(repositories).name]_vars

\* C20: suggestFeature called with no active repository and an empty registry
\* sends no backend request and ends with an error message.
C20_SuggestWithoutRepositoryFails ==
  [][(activeRepoName = Null /\ repositories = <<>> /\ SuggestFeature(FEATURE)) =>
       /\ inflight' = inflight
       /\ Last(messages').isError
       /\ ~isLoading']_vars

\* C21: the matched list of the mention resolver holds, for each tag of the
\* text in order, the name of the first registry entry whose lower-cased name
\* contains the lower-cased tag text; tags without such an entry contribute
\* nothing, no name occurs twice and the names are in the order of their first
\* tag.
TagTexts(content) ==
  LET tags == TagPositions(content)
  IN [k \in 1..Cardinality(tags) |->
        SubSeq(content, Nth(tags, k) + 1, Nth(tags, k) + TagLength(content, Nth(tags, k)))]

Selects(tag, registry, name) ==
  \E i \in 1..Len(registry) :
    /\ registry[i].name = name
    /\ Includes(ToLowerCase(registry[i].name), ToLowerCase(tag))
    /\ \A j \in 1..(i - 1) : ~Includes(ToLowerCase(registry[j].name), ToLowerCase(tag))

FirstTag(content, registry, name) ==
  CHOOSE k \in 1..Len(TagTexts(content)) :
    /\ Selects(TagTexts(content)[k], registry, name)
    /\ \A j \in 1..(k - 1) : ~Selects(TagTexts(content)[j], registry, name)

C21_MatchedList ==
  (resolver # Null /\ resolver.done) =>
    LET tags == TagTexts(resolver.input)
        matched == resolver.matched
    IN /\ \A i, j \in 1..Len(matched) : matched[i] = matched[j] => i = j
       /\ \A i \in 1..Len(matched) :
            \E k \in 1..Len(tags) : Selects(tags[k], resolver.registry, matched[i])
       /\ \A k \in 1..Len(tags) : \A i \in 1..Len(resolver.registry) :
            Selects(tags[k], resolver.registry, resolver.registry[i].name) =>
              \E m \in 1..Len(matched) : matched[m] = resolver.registry[i].name
       /\ \A i, j \in 1..Len(matched) :
            i < j => FirstTag(resolver.input, resolver.registry, matched[i])
                       < FirstTag(resolver.input, resolver.registry, matched[j])

\* C21 witness: a text with a tag that selects nothing and a repeated tag has
\* been resolved to two names, the second registry entry before the first
C21_Witness ==
  /\ resolver # Null /\ resolver.done
  /\ Len(resolver.matched) = 2
  /\ Len(TagTexts(resolver.input)) = 3
  /\ Len(resolver.registry) = 3
  /\ resolver.matched[1] = resolver.registry[2].name

\* C22: every submit of non-blank input while idle appends a user message
\* whose content is the typed text, trimmed and with its tags, followed by a
\* thinking placeholder, and the input field is cleared only by a submit that
\* was accepted in this way.
AcceptedAsTyped ==
  /\ Len(messages') = Len(messages) + 2
  /\ SubSeq(messages', 1, Len(messages)) = messages
  /\ messages'[Len(messages) + 1].type = "user"
  /\ messages'[Len(messages) + 1].kind = "user"
  /\ messages'[Len(messages) + 1].arg = Trim(input)
  /\ messages'[Len(messages) + 2].isThinking

C22_SubmitShowsTypedText ==
  /\ [][(Trim(input) # <<>> /\ ~isLoading /\ SubmitInput) => AcceptedAsTyped]_vars
  /\ [][(input # <<>> /\ input' = <<>> /\ SubmitInput) => AcceptedAsTyped]_vars

\* C23: when the backend call of analyzeRepository fails with a 5xx status,
\* the thinking placeholder is replaced by an error message that carries the
\* internal-server-error text.
C23_ServerErrorExplained ==
  [][\A r \in inflight : \A resp \in ResponsesFor(r) :
        (/\ r.op = "analyzeRepository"
         /\ ~resp.net /\ resp.status \in 500..599
         /\ SettleOn(r, resp)) =>
           /\ Last(messages').isError
           /\ Last(messages').kind = "analyzeRepositoryError"
           /\ Last(messages').arg = S500
           /\ Len(Thinking(messages')) = 0]_vars

\* C24: once every saving effect has run and nothing is pending, the stored
\* log, registry, active-repository name and session id equal those in
\* memory.
Quiescent ==
  /\ inflight = {} /\ timers = {}
  /\ storage.saved = [messages |-> <<messages>>, repositories |-> <<repositories>>,
                      activeRepoName |-> <<activeRepoName>>]

C24_StorageTracksState ==
  Quiescent =>
    /\ storage.messages = messages
    /\ storage.repositories = repositories
    /\ storage.active_repo_name = activeRepoName
    /\ storedSessionId = sessionId

\* C28: the log the hook is initialised with from localStorage, whenever the
\* page is loaded again, holds no thinking placeholder.
C28_NoPlaceholderAfterReload ==
  [][Reload => Len(Thinking(messages')) = 0]_vars

\* C25: an operation other than clearChatHistory keeps every registry entry:
\* each repository present before a step that is not clearChatHistory is
\* present and unchanged after it.
C25_EntriesKept ==
  [][~ClearChatHistory =>
       \A i \in 1..Len(repositories) :
         \E j \in 1..Len(repositories') :
           Entries(repositories')[j] = Entries(repositories)[i]]_vars

\* C26: the active-repository pointer is null or the name of an entry of the
\* registry.
C26_PointerInRegistry ==
  activeRepoName = Null \/ activeRepoName \in RegistryNames

\* C27: whenever the log holds a thinking placeholder the busy flag isLoading
\* is true.
C27_PlaceholderImpliesLoading == HasThinking => isLoading

\* C29: the callback a diagram queued is invoked at most once, and whenever
\* no load is in progress the callback queue is empty and no diagram is left
\* waiting for its callback, after a successful load and after a failed one.
C29_QueueReleased ==
  /\ \A d \in DIAGRAMS : invoked[d] <= 1
  /\ ~mermaidLoading =>
       /\ mermaidCallbacks = <<>>
       /\ \A d \in DIAGRAMS : diagrams[d] # "queued"

\* C30: when handleRepoSubmit or handleFileUpload resumes after its analysis,
\* it shows one toast; a success toast (with the modal closed) only if the
\* analysis put no error message in the log and its result is in the
\* registry, and the failure toast if the analysis ended with an error
\* message in the log.
Registered(r, registry) ==
  IF r.op = "analyzeRepository" THEN ExistsByUrl(registry, r.arg)
  ELSE \E i \in 1..Len(registry) : registry[i].src = r.arg

C30_ToastTellsOutcome ==
  [][\A r \in inflight :
       (r \notin inflight' /\ r.op \in {"analyzeRepository", "analyzeFile"}) =>
         /\ Len(toasts') = Len(toasts) + 1
         /\ Last(toasts').type = "success" =>
              ~Last(messages').isError /\ Registered(r, repositories')
         /\ Last(messages').isError => Last(toasts').type = "error"]_vars

====
